---- MODULE Spec2Model ----
(***************************************************************************)
(* Model of scrcpy-rust-gui (src/src/main.rs): the device enumerator, the  *)
(* config resolver, the argument normalizer, the per-frame reconciliation  *)
(* in ScrcpyGuiApp::update and the start/stop buttons.                     *)
(*                                                                         *)
(* Rust Strings are sequences of one-character strings, so that            *)
(* split_whitespace, lines, trim, starts_with and join are computed on     *)
(* characters.  Option<T> is a sequence of length 0 (None) or 1 (Some).    *)
(***************************************************************************)
EXTENDS Integers, Sequences, FiniteSets, TLC

VARIABLES
    devices,               \* ScrcpyGuiApp.devices
    selected_device,       \* ScrcpyGuiApp.selected_device
    last_selected_device,  \* ScrcpyGuiApp.last_selected_device
    scrcpy_process,        \* ScrcpyGuiApp.scrcpy_process : Option<Child>
    device_type,           \* ScrcpyGuiApp.device_type
    crop_args,             \* ScrcpyGuiApp.crop_args : Option<String>
    applied_config,        \* ScrcpyGuiApp.applied_config
    device_config,         \* ScrcpyGuiApp.device_config
    status_message,        \* ScrcpyGuiApp.status_message
    crop_vec,              \* the local Vec crop_args of the last apply_crop
    dev_type,              \* the local dev_type of the last resolution
    resolved_for,          \* Option: the local serial of the last resolution
    queries,               \* serials passed to get_device_type in this step
    adb_seen,              \* Option: the device list enumerated in this step
    spawn_log,             \* Option: argv of the spawn attempted in this step
    kill_log,              \* Option: result of the kill() called in this step
    running,               \* child processes alive in the operating system
    ui_event,              \* what the user did in the last rendered frame
    pc,                    \* position inside update(), or stage of a function run
    raw_in,                \* input of a normalizer run
    adb_in                 \* input of an enumerator run

vars == << devices, selected_device, last_selected_device, scrcpy_process,
           device_type, crop_args, applied_config, device_config,
           status_message, crop_vec, dev_type, resolved_for, queries,
           adb_seen, spawn_log, kill_log, running, ui_event, pc, raw_in,
           adb_in >>

----------------------------------------------------------------------------
(* Bounds *)

MaxTokens == 3

MaxDevices == 2

MaxLines == 3

\* the operating system lets the session have this many children at once
MaxChildren == 1

----------------------------------------------------------------------------
(* Option<T> *)

None == << >>

Some(x) == << x >>

IsSome(o) == Len(o) = 1

Unwrap(o) == o[1]

----------------------------------------------------------------------------
(* String literals of the program *)

SP == " "

TAB == "\t"

NL == "\n"

CR == "\r"

Empty == << >>

S_serial == << "-", "-", "s", "e", "r", "i", "a", "l" >>

S_default == << "d", "e", "f", "a", "u", "l", "t" >>

S_Unknown == << "U", "n", "k", "n", "o", "w", "n" >>

S_device == << "d", "e", "v", "i", "c", "e" >>

S_crop == << "-", "-", "c", "r", "o", "p" >>

S_m == << "-", "m" >>

S_b == << "-", "b" >>

S_video_bit_rate == << "-", "-", "v", "i", "d", "e", "o", "-", "b", "i", "t",
                       "-", "r", "a", "t", "e" >>

USIZE_MAX == 2147483647

----------------------------------------------------------------------------
(* str primitives *)

Whitespace == { SP, TAB, NL, CR }

RECURSIVE SplitFrom(_, _, _, _)
SplitFrom(s, i, cur, acc) ==
    IF i > Len(s)
    THEN IF cur = << >> THEN acc ELSE Append(acc, cur)
    ELSE IF s[i] \in Whitespace
         THEN SplitFrom(s, i + 1, << >>,
                        IF cur = << >> THEN acc ELSE Append(acc, cur))
         ELSE SplitFrom(s, i + 1, Append(cur, s[i]), acc)

split_whitespace(s) == SplitFrom(s, 1, << >>, << >>)

StripCR(l) ==
    IF Len(l) > 0 /\ l[Len(l)] = CR THEN SubSeq(l, 1, Len(l) - 1) ELSE l

RECURSIVE LinesFrom(_, _, _, _)
LinesFrom(s, i, cur, acc) ==
    IF i > Len(s)
    THEN IF cur = << >> THEN acc ELSE Append(acc, cur)
    ELSE IF s[i] = NL
         THEN LinesFrom(s, i + 1, << >>, Append(acc, StripCR(cur)))
         ELSE LinesFrom(s, i + 1, Append(cur, s[i]), acc)

lines(s) == LinesFrom(s, 1, << >>, << >>)

RECURSIVE TrimStart(_)
TrimStart(s) ==
    IF s # << >> /\ s[1] \in Whitespace THEN TrimStart(Tail(s)) ELSE s

RECURSIVE TrimEnd(_)
TrimEnd(s) ==
    IF s # << >> /\ s[Len(s)] \in Whitespace
    THEN TrimEnd(SubSeq(s, 1, Len(s) - 1))
    ELSE s

trim(s) == TrimEnd(TrimStart(s))

starts_with(s, p) == Len(s) >= Len(p) /\ SubSeq(s, 1, Len(p)) = p

RECURSIVE JoinFrom(_, _, _)
JoinFrom(toks, i, sep) ==
    IF i > Len(toks) THEN << >>
    ELSE IF i = Len(toks) THEN toks[i]
    ELSE toks[i] \o sep \o JoinFrom(toks, i + 1, sep)

JoinNoSeparator(toks) == JoinFrom(toks, 1, << >>)

join(toks) == JoinFrom(toks, 1, << SP >>)

----------------------------------------------------------------------------
(* apply_crop: the argument normalizer *)

\* A buggy loop whose last arm takes the next token as a value whatever it
\* starts with.
RECURSIVE CropLoopGreedy(_, _, _)
CropLoopGreedy(toks, i, acc) ==
    IF i > Len(toks) THEN acc
    ELSE LET part == toks[i] IN
         IF starts_with(part, S_crop)
         THEN CropLoopGreedy(toks, i + 1, Append(acc, part))
         ELSE IF part = S_m \/ part = S_b \/ part = S_video_bit_rate
         THEN CropLoopGreedy(toks, i + 2, acc)
         ELSE IF i + 1 <= Len(toks)
              THEN CropLoopGreedy(toks, i + 2,
                                  Append(Append(acc, part), toks[i + 1]))
              ELSE CropLoopGreedy(toks, i + 1, Append(acc, part))

\* A buggy loop whose third arm knows `-b` only.
RECURSIVE CropLoopShortOnly(_, _, _)
CropLoopShortOnly(toks, i, acc) ==
    IF i > Len(toks) THEN acc
    ELSE LET part == toks[i] IN
         IF starts_with(part, S_crop)
         THEN CropLoopShortOnly(toks, i + 1, Append(acc, part))
         ELSE IF part = S_m \/ part = S_b
         THEN CropLoopShortOnly(toks, i + 2, acc)
         ELSE IF i + 1 <= Len(toks) /\ ~ starts_with(toks[i + 1], << "-" >>)
              THEN CropLoopShortOnly(toks, i + 2,
                                     Append(Append(acc, part), toks[i + 1]))
              ELSE CropLoopShortOnly(toks, i + 1, Append(acc, part))

\* The while-let loop over the peekable token iterator; i is the position of
\* the token iter.next() returns, acc the local Vec crop_args.
RECURSIVE CropLoop(_, _, _)
CropLoop(toks, i, acc) ==
    IF i > Len(toks) THEN acc
    ELSE LET part == toks[i] IN
         IF starts_with(part, S_crop)
         THEN CropLoop(toks, i + 1, Append(acc, part))
         ELSE IF part = S_m
         THEN CropLoop(toks, i + 2, acc)
         ELSE IF part = S_b \/ part = S_video_bit_rate
         THEN CropLoop(toks, i + 2, acc)
         ELSE IF i + 1 <= Len(toks) /\ ~ starts_with(toks[i + 1], << "-" >>)
              THEN CropLoop(toks, i + 2, Append(Append(acc, part), toks[i + 1]))
              ELSE CropLoop(toks, i + 1, Append(acc, part))

CropTokens(crop) == CropLoop(split_whitespace(crop), 1, << >>)

----------------------------------------------------------------------------
(* The ScrcpyGuiApp struct as one record, so that the methods compose *)

Self ==
    [ devices              |-> devices,
      selected_device      |-> selected_device,
      last_selected_device |-> last_selected_device,
      device_type          |-> device_type,
      crop_args            |-> crop_args,
      applied_config       |-> applied_config,
      device_config        |-> device_config,
      crop_vec             |-> crop_vec,
      dev_type             |-> dev_type,
      resolved_for         |-> resolved_for,
      queries              |-> queries,
      adb_seen             |-> adb_seen,
      oob                  |-> FALSE ]   \* an index out of bounds has panicked

Store(s) ==
    /\ devices' = s.devices
    /\ selected_device' = s.selected_device
    /\ last_selected_device' = s.last_selected_device
    /\ device_type' = s.device_type
    /\ crop_args' = s.crop_args
    /\ applied_config' = s.applied_config
    /\ device_config' = s.device_config
    /\ crop_vec' = s.crop_vec
    /\ dev_type' = s.dev_type
    /\ resolved_for' = s.resolved_for
    /\ queries' = s.queries
    /\ adb_seen' = s.adb_seen

\* A buggy apply_crop that forgets `self.crop_args = None`.
apply_crop_keeps_previous(s, crop) ==
    LET v == CropTokens(crop) IN
    [ s EXCEPT !.applied_config = crop,
               !.crop_vec = v,
               !.crop_args = IF v # << >> THEN Some(join(v)) ELSE @ ]

apply_crop(s, crop) ==
    LET v == CropTokens(crop) IN
    [ s EXCEPT !.applied_config = crop,
               !.crop_vec = v,
               !.crop_args = IF v # << >> THEN Some(join(v)) ELSE None ]

----------------------------------------------------------------------------
(* The external tools: adb and its outputs *)

D1 == << "d", "1" >>

D2 == << "d", "2" >>

D3 == << "d", "3" >>

\* the devices that are ever attached during a session
Serials == { D1, D2 }

S_offline == << "o", "f", "f", "l", "i", "n", "e" >>

S_header == << "L", "i", "s", "t", " ", "o", "f", " ", "d", "e", "v", "i", "c",
               "e", "s", " ", "a", "t", "t", "a", "c", "h", "e", "d" >>

M_P7 == << "P", "7" >>

M_N5 == << "N", "5" >>

\* ro.product.model of each attached device.
ModelOf(serial) == IF serial = D2 THEN M_N5 ELSE M_P7

\* What one run of `adb -s <serial> shell getprop ro.product.model` can give:
\* the model followed by a line end, or no run at all (Command::output
\* returned Err).
QueryOutcomes == { "model", "no_adb" }

GetpropOutput(serial, q) ==
    [ ok     |-> q # "no_adb",
      stdout |-> IF q = "model" THEN ModelOf(serial) \o << CR, NL >> ELSE Empty ]

get_device_type(serial, q) ==
    LET output == GetpropOutput(serial, q) IN
    IF output.ok THEN trim(output.stdout) ELSE S_Unknown

\* A buggy closure that does not count the parts.
RECURSIVE FilterLinesLoose(_, _, _)
FilterLinesLoose(ls, i, acc) ==
    IF i > Len(ls) THEN acc
    ELSE LET parts == split_whitespace(ls[i]) IN
         FilterLinesLoose(ls, i + 1,
                          IF Len(parts) >= 2 /\ parts[2] = S_device
                          THEN Append(acc, parts[1])
                          ELSE acc)

\* The filter_map closure of get_adb_devices, as a fold over the lines.
RECURSIVE FilterLines(_, _, _)
FilterLines(ls, i, acc) ==
    IF i > Len(ls) THEN acc
    ELSE LET parts == split_whitespace(ls[i]) IN
         FilterLines(ls, i + 1,
                     IF Len(parts) = 2 /\ parts[2] = S_device
                     THEN Append(acc, parts[1])
                     ELSE acc)

get_adb_devices(output) ==
    IF output.ok THEN FilterLines(lines(output.stdout), 2, << >>) ELSE << >>

----------------------------------------------------------------------------
(* Config resolver and the resolution step *)

\* A buggy resolver with no fallback to the "default" key.
resolve_without_default(t, T) ==
    IF t \in DOMAIN T THEN Some(T[t]) ELSE None

\* self.device_config.get(&dev_type).or_else(|| self.device_config.get("default"))
resolve(t, T) ==
    IF t \in DOMAIN T THEN Some(T[t])
    ELSE IF S_default \in DOMAIN T THEN Some(T[S_default])
    ELSE None

\* q is the outcome of the getprop run this call makes.
detect_and_apply_device_type(s, q) ==
    IF s.devices = << >> THEN s
    ELSE IF s.selected_device >= Len(s.devices) THEN [ s EXCEPT !.oob = TRUE ]
    ELSE LET serial == s.devices[s.selected_device + 1]
             t      == get_device_type(serial, q)
             config == resolve(t, s.device_config)
             s1     == [ s EXCEPT !.dev_type = t,
                                  !.resolved_for = Some(serial),
                                  !.queries = Append(@, serial) ]
         IN IF IsSome(config)
            THEN [ apply_crop(s1, Unwrap(config).scrcpy_args)
                     EXCEPT !.device_type = Unwrap(config).label ]
            ELSE apply_crop(s1, Empty)

\* A buggy refresh that keeps an index the new list does not have.
refresh_devices_keeping_index(s, ds, q) ==
    LET s0 == [ s EXCEPT !.adb_seen = Some(ds) ]
    IN IF ds # s.devices
       THEN detect_and_apply_device_type(
                [ s0 EXCEPT !.devices = ds,
                            !.last_selected_device = USIZE_MAX ],
                q)
       ELSE s0

\* A buggy refresh that replaces the list and resolves nothing.
refresh_devices_replacing_only(s, ds, q) ==
    LET s0 == [ s EXCEPT !.adb_seen = Some(ds) ]
    IN IF ds # s.devices
       THEN [ s0 EXCEPT !.devices = ds,
                        !.selected_device = IF @ >= Len(ds) THEN 0 ELSE @ ]
       ELSE s0

\* ds is what get_adb_devices() returned, q the outcome of the getprop run.
refresh_devices(s, ds, q) ==
    LET s0 == [ s EXCEPT !.adb_seen = Some(ds) ]
    IN IF ds # s.devices
       THEN detect_and_apply_device_type(
                [ s0 EXCEPT !.devices = ds,
                            !.selected_device =
                                IF @ >= Len(ds) THEN 0 ELSE @,
                            !.last_selected_device = USIZE_MAX ],
                q)
       ELSE s0

\* The part of update() before the widgets are drawn: the timed refresh and
\* the re-resolution of a selection that is not the last one processed.
\* A buggy update() that never looks at the last-processed marker.
ReconciledOnPollOnly(s, elapsed, ds, q1, q2) ==
    IF elapsed THEN refresh_devices(s, ds, q1) ELSE s

Reconciled(s, elapsed, ds, q1, q2) ==
    LET s1 == IF elapsed THEN refresh_devices(s, ds, q1) ELSE s
    IN IF s1.oob THEN s1
       ELSE IF s1.devices # << >>
               /\ s1.selected_device # s1.last_selected_device
       THEN detect_and_apply_device_type(
                [ s1 EXCEPT !.last_selected_device = s1.selected_device ], q2)
       ELSE s1

----------------------------------------------------------------------------
(* Inputs of the session: configuration tables and adb outputs *)

\* Every sequence of at most n elements of S.
SeqsUpTo(S, n) == UNION { [1..k -> S] : k \in 0..n }

RawPixel == S_crop \o << SP >> \o << "1", ":", "2" >> \o << SP >> \o S_m
            \o << SP, "9", SP, "-", "x", SP, "v" >>

RawNexus == S_m \o << SP, "9", TAB >> \o S_b \o << SP, "8", "M" >>

RawDefault == << SP, "-", "-", "f", "=", "6", SP >>

RawBlank == << SP, TAB >>

Entry(k) ==
    IF k = M_P7 THEN [ label |-> "Pixel 7", scrcpy_args |-> RawPixel ]
    ELSE IF k = M_N5 THEN [ label |-> "Nexus 5", scrcpy_args |-> RawNexus ]
    ELSE IF k = S_Unknown THEN [ label |-> "No model", scrcpy_args |-> RawBlank ]
    ELSE [ label |-> "Default", scrcpy_args |-> RawDefault ]

KeySets ==
    { { }, { M_P7 }, { S_default }, { M_P7, S_default },
      { M_P7, M_N5, S_Unknown } }

Tables == { [ k \in K |-> Entry(k) ] : K \in KeySets }

AdbLine(e) == e.serial \o << TAB >> \o e.status \o << NL >>

RECURSIVE AdbBody(_, _)
AdbBody(l, i) ==
    IF i > Len(l) THEN << NL >> ELSE AdbLine(l[i]) \o AdbBody(l, i + 1)

AdbStdout(l) == S_header \o << NL >> \o AdbBody(l, 1)

AdbEntries == [ serial : Serials, status : { S_device, S_offline } ]

AdbListings ==
    { l \in SeqsUpTo(AdbEntries, MaxDevices) :
        \A i, j \in 1..Len(l) : i # j => l[i].serial # l[j].serial }

\* What one run of `adb devices` can give: a listing, exit status 1 with the
\* listing or with nothing on stdout, or no run at all.
AdbResults ==
    { [ ok |-> TRUE, status |-> 0, stdout |-> AdbStdout(l) ] : l \in AdbListings }
    \cup { [ ok |-> TRUE, status |-> 1, stdout |-> Empty ],
           [ ok |-> TRUE, status |-> 1,
             stdout |-> AdbStdout(<< [ serial |-> D1, status |-> S_device ] >>) ],
           [ ok |-> FALSE, status |-> 1, stdout |-> Empty ] }

\* Every value a call of get_adb_devices() can return.
Enumerations == { get_adb_devices(output) : output \in AdbResults }

----------------------------------------------------------------------------
(* The session: ScrcpyGuiApp::default, then one update() per frame *)

Load(s) ==
    /\ devices = s.devices
    /\ selected_device = s.selected_device
    /\ last_selected_device = s.last_selected_device
    /\ device_type = s.device_type
    /\ crop_args = s.crop_args
    /\ applied_config = s.applied_config
    /\ device_config = s.device_config
    /\ crop_vec = s.crop_vec
    /\ dev_type = s.dev_type
    /\ resolved_for = s.resolved_for
    /\ queries = s.queries
    /\ adb_seen = s.adb_seen

\* A buggy struct literal whose marker says index 0 is already processed.
FreshProcessed(T, ds) ==
    [ devices              |-> ds,
      selected_device      |-> 0,
      last_selected_device |-> 0,
      device_type          |-> "",
      crop_args            |-> None,
      applied_config       |-> Empty,
      device_config        |-> T,
      crop_vec             |-> << >>,
      dev_type             |-> Empty,
      resolved_for         |-> None,
      queries              |-> << >>,
      adb_seen             |-> Some(ds),
      oob                  |-> FALSE ]

\* The struct literal of ScrcpyGuiApp::default, before
\* app.detect_and_apply_device_type().
Fresh(T, ds) ==
    [ devices              |-> ds,
      selected_device      |-> 0,
      last_selected_device |-> USIZE_MAX,
      device_type          |-> "",
      crop_args            |-> None,
      applied_config       |-> Empty,
      device_config        |-> T,
      crop_vec             |-> << >>,
      dev_type             |-> Empty,
      resolved_for         |-> None,
      queries              |-> << >>,
      adb_seen             |-> Some(ds),
      oob                  |-> FALSE ]

\* What ScrcpyGuiApp::default leaves in status_message: nothing, the result
\* of the download at startup, or the note that the fallback file was loaded.
StartupMessages ==
    { "", "Config downloaded successfully.", "Failed to download config",
      "Loaded default config (fallback)." }

NoRun ==
    /\ raw_in = Empty
    /\ adb_in = [ ok |-> FALSE, status |-> 1, stdout |-> Empty ]

Init ==
    /\ \E T \in Tables, ds \in Enumerations, q \in QueryOutcomes :
          Load(detect_and_apply_device_type(Fresh(T, ds), q))
    /\ status_message \in StartupMessages
    /\ scrcpy_process = None
    /\ spawn_log = None
    /\ kill_log = None
    /\ running = { }
    /\ ui_event = "init"
    /\ pc = "reconcile"
    /\ NoRun

Quiet == [ Self EXCEPT !.queries = << >>, !.adb_seen = None ]

\* Where update() is after a method ran: in front of the widgets, or
\* unwinding from an index out of bounds.
After(s, there) == IF s.oob THEN "index_panic" ELSE there

\* A buggy tick that forgets the child when no device is left.
PollTickDroppingChild ==
    /\ pc = "reconcile"
    /\ \E ds \in Enumerations, q1 \in QueryOutcomes, q2 \in QueryOutcomes :
          LET s == Reconciled(Quiet, TRUE, ds, q1, q2) IN
          /\ Store(s)
          /\ pc' = After(s, "ui")
          /\ scrcpy_process' = IF s.devices = << >> THEN None
                                ELSE scrcpy_process
    /\ spawn_log' = None
    /\ kill_log' = None
    /\ ui_event' = "none"
    /\ UNCHANGED << status_message, running, raw_in, adb_in >>

\* update(), up to the widgets, in a frame where more than a second has
\* passed since the last refresh.
PollTick ==
    /\ pc = "reconcile"
    /\ \E ds \in Enumerations, q1 \in QueryOutcomes, q2 \in QueryOutcomes :
          LET s == Reconciled(Quiet, TRUE, ds, q1, q2) IN
          Store(s) /\ pc' = After(s, "ui")
    /\ spawn_log' = None
    /\ kill_log' = None
    /\ ui_event' = "none"
    /\ UNCHANGED << scrcpy_process, status_message, running, raw_in, adb_in >>

\* update(), up to the widgets, in a frame within the second.
FrameTick ==
    /\ pc = "reconcile"
    /\ \E q2 \in QueryOutcomes :
          LET s == Reconciled(Quiet, FALSE, << >>, q2, q2) IN
          Store(s) /\ pc' = After(s, "ui")
    /\ spawn_log' = None
    /\ kill_log' = None
    /\ ui_event' = "none"
    /\ UNCHANGED << scrcpy_process, status_message, running, raw_in, adb_in >>

\* The widgets of one frame.  A click lands on one widget, so a frame handles
\* at most one of the events below, after the reconciliation of that frame.

\* The frame is drawn and the user touches nothing.
UiNone ==
    /\ pc = "ui"
    /\ pc' = "reconcile"
    /\ ui_event' = "none"
    /\ Store(Quiet)
    /\ spawn_log' = None
    /\ kill_log' = None
    /\ UNCHANGED << scrcpy_process, status_message, running, raw_in, adb_in >>

\* The user picks entry i of the device ComboBox.
UiSelect ==
    /\ pc = "ui"
    /\ devices # << >>
    /\ \E i \in 0..(Len(devices) - 1) :
          Store([ Quiet EXCEPT !.selected_device = i ])
    /\ pc' = "reconcile"
    /\ ui_event' = "select"
    /\ spawn_log' = None
    /\ kill_log' = None
    /\ UNCHANGED << scrcpy_process, status_message, running, raw_in, adb_in >>

\* The user clicks the refresh button beside the ComboBox.
UiRefresh ==
    /\ pc = "ui"
    /\ devices # << >>
    /\ \E ds \in Enumerations, q \in QueryOutcomes :
          LET s == refresh_devices(Quiet, ds, q) IN
          Store(s) /\ pc' = After(s, "reconcile")
    /\ ui_event' = "refresh"
    /\ spawn_log' = None
    /\ kill_log' = None
    /\ UNCHANGED << scrcpy_process, status_message, running, raw_in, adb_in >>

\* A buggy enabling condition that forgets the tracked process.
StartEnabledIgnoringProcess == devices # << >>

\* add_enabled(!self.devices.is_empty() && self.scrcpy_process.is_none(), ..)
StartEnabled == devices # << >> /\ scrcpy_process = None

\* The command line built by the Start button.
StartArgv ==
    (IF devices # << >>
     THEN << S_serial, devices[selected_device + 1] >>
     ELSE << >>)
    \o (IF IsSome(crop_args)
        THEN split_whitespace(Unwrap(crop_args))
        ELSE << >>)

\* The process id the operating system gives the next child.
NewPid == CHOOSE p \in 1..(Cardinality(running) + 1) : p \notin running

\* A buggy Start that unwraps the result of cmd.spawn().
UiStartUnwrapping ==
    /\ pc = "ui"
    /\ IF StartEnabled
       THEN /\ spawn_log' = Some(StartArgv)
            /\ \/ /\ Cardinality(running) < MaxChildren
                  /\ scrcpy_process' = Some(NewPid)
                  /\ running' = running \cup { NewPid }
                  /\ pc' = "reconcile"
               \/ /\ scrcpy_process' = scrcpy_process
                  /\ running' = running
                  /\ pc' = "panicked"
       ELSE /\ spawn_log' = None
            /\ pc' = "reconcile"
            /\ UNCHANGED << scrcpy_process, running >>
    /\ ui_event' = "start"
    /\ kill_log' = None
    /\ Store(Quiet)
    /\ UNCHANGED << status_message, raw_in, adb_in >>

\* The user clicks where the Start button is; a disabled button ignores it.
\* cmd.spawn() gives a child, or an error that goes to status_message.
UiStart ==
    /\ pc = "ui"
    /\ IF StartEnabled
       THEN /\ spawn_log' = Some(StartArgv)
            /\ \/ /\ Cardinality(running) < MaxChildren
                  /\ scrcpy_process' = Some(NewPid)
                  /\ running' = running \cup { NewPid }
                  /\ status_message' = status_message
               \/ /\ scrcpy_process' = scrcpy_process
                  /\ running' = running
                  /\ status_message' = "Failed to start scrcpy"
       ELSE /\ spawn_log' = None
            /\ UNCHANGED << scrcpy_process, running, status_message >>
    /\ pc' = "reconcile"
    /\ ui_event' = "start"
    /\ kill_log' = None
    /\ Store(Quiet)
    /\ UNCHANGED << raw_in, adb_in >>

\* add_enabled(self.scrcpy_process.is_some(), ..)
StopEnabled == scrcpy_process # None

\* What child.kill() can return.
KillResults == { "killed", "failed" }

\* A buggy Stop that keeps the handle of a child it could not kill.
HandleAfterStopIfKilled(handle, r) == IF r = "killed" THEN None ELSE handle

\* `let _ = child.kill(); self.scrcpy_process = None;`
HandleAfterStop(handle, r) == None

\* The user clicks where the Stop button is; the result of kill() is dropped.
UiStop ==
    /\ pc = "ui"
    /\ IF StopEnabled
       THEN \E r \in KillResults :
               /\ kill_log' = Some(r)
               /\ running' = IF r = "killed"
                             THEN running \ { Unwrap(scrcpy_process) }
                             ELSE running
               /\ scrcpy_process' = HandleAfterStop(scrcpy_process, r)
       ELSE /\ kill_log' = None
            /\ UNCHANGED << scrcpy_process, running >>
    /\ pc' = "reconcile"
    /\ ui_event' = "stop"
    /\ spawn_log' = None
    /\ Store(Quiet)
    /\ UNCHANGED << status_message, raw_in, adb_in >>

\* What download_and_update_device_config can do: panic in one of its
\* expect() calls, write the file, or fail to write it.
DownloadOutcomes == { "panic", "written", "write_error" }

\* A buggy Download that loads what it has written.
TableReloaded(T, downloaded) == downloaded

\* The device table after the Download button: the file is rewritten, the
\* table in memory is not read again.
TableAfterDownload(T, downloaded) == T

\* The user clicks the Download button.
UiDownload ==
    /\ pc = "ui"
    /\ \E r \in DownloadOutcomes, downloaded \in Tables :
          /\ pc' = IF r = "panic" THEN "panicked" ELSE "reconcile"
          /\ status_message' =
                IF r = "written" THEN "Config downloaded successfully."
                ELSE IF r = "write_error" THEN "Failed to download config"
                ELSE status_message
          /\ Store([ Quiet EXCEPT !.device_config =
                        IF r = "panic" THEN @
                        ELSE TableAfterDownload(@, downloaded) ])
    /\ ui_event' = "download"
    /\ spawn_log' = None
    /\ kill_log' = None
    /\ UNCHANGED << scrcpy_process, running, raw_in, adb_in >>

\* The window is closed between two frames: run_native returns and the app,
\* with its Option<Child>, is dropped.  Dropping a Child does not kill it.
Exit ==
    /\ pc = "reconcile"
    /\ pc' = "exited"
    /\ ui_event' = "exit"
    /\ spawn_log' = None
    /\ kill_log' = None
    /\ Store(Quiet)
    /\ UNCHANGED << scrcpy_process, status_message, running, raw_in, adb_in >>

Next ==
    \/ PollTick
    \/ FrameTick
    \/ UiNone
    \/ UiSelect
    \/ UiRefresh
    \/ UiStart
    \/ UiStop
    \/ UiDownload
    \/ Exit

Spec == Init /\ [][Next]_vars

----------------------------------------------------------------------------
(* Runs of the normalizer alone: apply_crop on one raw string, then again   *)
(* on its own joined output                                                 *)

Words == { S_m, S_b, S_video_bit_rate, S_crop, << "-", "x" >>, << "v" >> }

\* separator between tokens, and padding at both ends
Layouts == { << << SP >>, Empty >>, << << TAB, SP >>, << NL >> >> }

Render(ws, lay) == lay[2] \o JoinFrom(ws, 1, lay[1]) \o lay[2]

ExampleRaw ==
    S_crop \o << SP, "1", "9", "2", "0", ":", "1", "0", "8", "0", ":", "0",
                 ":", "0", SP >>
    \o S_m \o << SP, "1", "0", "2", "4", SP >>
    \o S_b \o << SP, "8", "M", SP >>
    \o << "-", "-", "m", "a", "x", "-", "f", "p", "s", "=", "6", "0" >>

ExampleTokens ==
    << S_crop,
       << "1", "9", "2", "0", ":", "1", "0", "8", "0", ":", "0", ":", "0" >>,
       << "-", "-", "m", "a", "x", "-", "f", "p", "s", "=", "6", "0" >> >>

RawInputs ==
    { Render(ws, lay) : ws \in SeqsUpTo(Words, MaxTokens), lay \in Layouts }
    \cup { ExampleRaw }

NoTable == [ k \in { } |-> Entry(k) ]

Parked ==
    /\ Load([ Fresh(NoTable, << >>) EXCEPT !.adb_seen = None ])
    /\ status_message = ""
    /\ scrcpy_process = None
    /\ spawn_log = None
    /\ kill_log = None
    /\ running = { }
    /\ ui_event = "init"

InitNorm ==
    /\ Parked
    /\ raw_in \in RawInputs
    /\ adb_in = [ ok |-> FALSE, status |-> 1, stdout |-> Empty ]
    /\ pc = "norm_in"

NormApply ==
    /\ pc = "norm_in"
    /\ Store(apply_crop(Self, raw_in))
    /\ pc' = "normalized"
    /\ UNCHANGED << scrcpy_process, status_message, spawn_log, kill_log,
                    running, ui_event, raw_in, adb_in >>

NormAgain ==
    /\ pc = "normalized"
    /\ Store(apply_crop(Self, join(crop_vec)))
    /\ pc' = "renormalized"
    /\ UNCHANGED << scrcpy_process, status_message, spawn_log, kill_log,
                    running, ui_event, raw_in, adb_in >>

NextNorm ==
    \/ NormApply
    \/ NormAgain

SpecNorm == InitNorm /\ [][NextNorm]_vars

----------------------------------------------------------------------------
(* Runs of the enumerator alone: get_adb_devices on one output of adb *)

S_unauthorized == << "u", "n", "a", "u", "t", "h", "o", "r", "i", "z", "e", "d" >>

LineKinds ==
    { S_header,
      D1 \o << TAB >> \o S_device,
      D2 \o << SP, SP >> \o S_device \o << CR >>,
      D3 \o << TAB >> \o S_offline,
      D3 \o << TAB >> \o S_unauthorized,
      D1 \o << TAB >> \o S_device \o << SP, "u", "s", "b" >>,
      S_device,
      Empty }

RECURSIVE Unlines(_, _)
Unlines(ls, i) ==
    IF i > Len(ls) THEN Empty ELSE ls[i] \o << NL >> \o Unlines(ls, i + 1)

ListInputs ==
    { [ ok |-> TRUE, status |-> st, stdout |-> Unlines(ls, 1) ] :
        ls \in SeqsUpTo(LineKinds, MaxLines), st \in { 0, 1 } }
    \cup { [ ok |-> FALSE, status |-> 1, stdout |-> Empty ] }

InitList ==
    /\ Parked
    /\ raw_in = Empty
    /\ adb_in \in ListInputs
    /\ pc = "list_in"

ListDevices ==
    /\ pc = "list_in"
    /\ devices' = get_adb_devices(adb_in)
    /\ pc' = "listed"
    /\ UNCHANGED << selected_device, last_selected_device, scrcpy_process,
                    device_type, crop_args, applied_config, device_config,
                    status_message, crop_vec, dev_type, resolved_for,
                    queries, adb_seen, spawn_log, kill_log, running,
                    ui_event, raw_in, adb_in >>

NextList == ListDevices

SpecList == InitList /\ [][NextList]_vars

----------------------------------------------------------------------------
(* Properties *)

\* A resolution ran in the step that led to this state.
Resolved == queries # << >>

\* C1: config resolution is a two-tier fallback.  After a resolution for
\* device type t with table T, the applied entry is T[t] when t is a key of T,
\* else T["default"] when "default" is a key, else nothing: then the applied
\* config text is empty and the normalized args are absent.
C1_TwoTierFallback ==
    Resolved =>
        LET T == device_config
            t == dev_type
        IN IF t \in DOMAIN T
           THEN /\ applied_config = T[t].scrcpy_args
                /\ device_type = T[t].label
           ELSE IF S_default \in DOMAIN T
           THEN /\ applied_config = T[S_default].scrcpy_args
                /\ device_type = T[S_default].label
           ELSE /\ applied_config = Empty
                /\ crop_args = None

C1_Witness ==
    /\ Resolved
    /\ dev_type \notin DOMAIN device_config
    /\ S_default \in DOMAIN device_config
    /\ applied_config = RawDefault
    /\ IsSome(crop_args)

Suppressed == { S_m, S_b, S_video_bit_rate }

\* The tokens left when, scanning left to right, each token that equals -m, -b
\* or --video-bit-rate is removed together with the token after it.
RECURSIVE Kept(_)
Kept(toks) ==
    IF toks = << >> THEN << >>
    ELSE IF Head(toks) \in Suppressed
         THEN IF Len(toks) = 1 THEN << >> ELSE Kept(Tail(Tail(toks)))
         ELSE << Head(toks) >> \o Kept(Tail(toks))

\* C2: the output of normalize is the input's whitespace-separated tokens, in
\* order, without the tokens scanned as -m, -b or --video-bit-rate and the one
\* token after each; every other token is kept.  The example string yields
\* [--crop, 1920:1080:0:0, --max-fps=60].
C2_NormalizeKeepsAllButSuppressed ==
    pc = "normalized" =>
        /\ crop_vec = Kept(split_whitespace(raw_in))
        /\ raw_in = ExampleRaw => crop_vec = ExampleTokens

C2_Witness ==
    /\ pc = "normalized"
    /\ raw_in = ExampleRaw
    /\ crop_vec = ExampleTokens

\* C3: normalize is idempotent on its output: normalizing the space-joined
\* output again gives the same tokens and the same stored value, and no
\* output holds a token equal to -m, -b or --video-bit-rate.
C3_NormalizeIdempotent ==
    /\ [][pc' = "renormalized" =>
            /\ crop_vec' = crop_vec
            /\ crop_args' = crop_args]_vars
    /\ [](pc \in { "normalized", "renormalized" } =>
            \A i \in 1..Len(crop_vec) : crop_vec[i] \notin Suppressed)

C3_Witness ==
    /\ pc = "renormalized"
    /\ crop_vec # << >>
    /\ Len(crop_vec) < Len(split_whitespace(raw_in))

\* The step is the reconciliation of a frame whose timer had elapsed.
PollStep == pc = "reconcile" /\ pc' = "ui" /\ IsSome(adb_seen')

\* C4: when a poll tick enumerates a non-empty list that differs from the
\* stored one and leaves the selected index out of bounds, the tick ends with
\* selected index 0 and has run the resolution exactly once.
C4_ResetResolvesOnce ==
    [][(/\ PollStep
        /\ Unwrap(adb_seen') # << >>
        /\ Unwrap(adb_seen') # devices
        /\ selected_device >= Len(Unwrap(adb_seen')))
       => (/\ selected_device' = 0
           /\ Len(queries') = 1)]_vars

\* C5: when a tick enumerates the stored list again and the user has not
\* changed the selection since the previous tick, the tick runs no resolution
\* and leaves the device list, the selected index, the last-processed marker
\* and the resolved selection unchanged.
C5_IdenticalEnumerationIsQuiet ==
    [][(/\ PollStep
        /\ Unwrap(adb_seen') = devices
        /\ ui_event \notin { "init", "select" })
       => (/\ queries' = << >>
           /\ UNCHANGED << devices, selected_device, last_selected_device,
                           device_type, crop_args, applied_config >>)]_vars

\* C6: a spawn is attempted only where the device list is non-empty and no
\* process handle is tracked; a start while a handle exists, or with no
\* device, attempts no spawn and changes no handle.
C6_SpawnOnlyWhenIdleWithDevice ==
    [][/\ IsSome(spawn_log') => (devices # << >> /\ scrcpy_process = None)
       /\ (pc = "ui" /\ ui_event' = "start"
             /\ (scrcpy_process # None \/ devices = << >>))
          => (spawn_log' = None /\ scrcpy_process' = scrcpy_process)]_vars

C6_Witness ==
    /\ ui_event = "start"
    /\ IsSome(spawn_log)
    /\ IsSome(scrcpy_process)

\* C7: a started session gets exactly `--serial`, the identity of the device
\* at the selected index, then the tokens the normalizer produced, each as an
\* argument of its own, in the same order and number; with absent normalized
\* args only `--serial <identity>`.
C7_SpawnArgvIsSerialThenTokens ==
    IsSome(spawn_log) =>
        /\ Unwrap(spawn_log)
             = << S_serial, devices[selected_device + 1] >> \o crop_vec
        /\ crop_args = None => Len(Unwrap(spawn_log)) = 2

C7_Witness ==
    /\ IsSome(spawn_log)
    /\ Len(crop_vec) >= 2
    /\ Len(Unwrap(spawn_log)) = 2 + Len(crop_vec)

\* C8: after every resolution the shown device type is the label of the entry
\* matched for the currently selected device, or empty when neither a
\* device-specific nor a default entry matched.
C8_LabelOfMatchedEntryOrEmpty ==
    Resolved =>
        device_type =
            IF dev_type \in DOMAIN device_config
            THEN device_config[dev_type].label
            ELSE IF S_default \in DOMAIN device_config
            THEN device_config[S_default].label
            ELSE ""

\* C9: the normalized argument value is absent exactly when no token survived
\* the last normalization; it is never present and empty, and present it is
\* the joined survivors, so no earlier value outlives a normalization that
\* produced nothing.
C9_AbsentIffNoSurvivor ==
    /\ crop_args = None <=> crop_vec = << >>
    /\ crop_args # Some(Empty)
    /\ crop_vec = CropTokens(applied_config)
    /\ IsSome(crop_args) => split_whitespace(Unwrap(crop_args)) = crop_vec

C9_Witness ==
    /\ Resolved
    /\ applied_config = RawNexus
    /\ crop_args = None
    /\ selected_device = 1
    /\ ui_event = "none"

\* A line of exactly two whitespace-separated tokens, the second `device`.
Qualifies(l) ==
    LET parts == split_whitespace(l) IN Len(parts) = 2 /\ parts[2] = S_device

RECURSIVE FirstTokens(_)
FirstTokens(ls) ==
    IF ls = << >> THEN << >>
    ELSE << split_whitespace(Head(ls))[1] >> \o FirstTokens(Tail(ls))

\* C10 as claimed: listDevices returns, in output order, the first tokens of
\* all the output lines of exactly two tokens whose second is `device`.
C10_EveryQualifyingLine ==
    (pc = "listed" /\ adb_in.ok) =>
        devices = FirstTokens(SelectSeq(lines(adb_in.stdout), Qualifies))

\* C10 as amended: listDevices skips the first output line whatever it holds,
\* and returns, in output order, the first tokens of the later lines of exactly
\* two tokens whose second is `device`.
C10_QualifyingLinesAfterFirst ==
    (pc = "listed" /\ adb_in.ok) =>
        LET ls == lines(adb_in.stdout) IN
        devices = IF ls = << >> THEN << >>
                  ELSE FirstTokens(SelectSeq(Tail(ls), Qualifies))

C10_Witness ==
    /\ pc = "listed"
    /\ adb_in.ok
    /\ Len(lines(adb_in.stdout)) = 3
    /\ Head(lines(adb_in.stdout)) = S_header
    /\ devices = << D1, D2 >>

\* C11: when the invocation of adb fails in any way (the binary cannot be run,
\* or it exits with a nonzero status), the listing is empty whatever adb wrote.
C11_FailedInvocationListsNothing ==
    (pc = "listed" /\ (~ adb_in.ok \/ adb_in.status # 0)) => devices = << >>

\* C12: a Stop with a tracked child asks for its termination and leaves no
\* handle whether the kill succeeded or failed, so that Start is possible
\* again when a device is listed; a Stop with no tracked child changes nothing.
C12_StopAlwaysClearsHandle ==
    [][(pc = "ui" /\ ui_event' = "stop")
       => IF scrcpy_process # None
          THEN /\ IsSome(kill_log')
               /\ scrcpy_process' = None
               /\ devices # << >>
                    => (devices' # << >> /\ scrcpy_process' = None)
               /\ UNCHANGED << devices, selected_device, last_selected_device >>
          ELSE /\ kill_log' = None
               /\ UNCHANGED << devices, selected_device, last_selected_device,
                               scrcpy_process, device_type, crop_args,
                               applied_config, device_config, status_message,
                               running >>]_vars

C12_Witness ==
    /\ ui_event = "stop"
    /\ kill_log = Some("failed")
    /\ scrcpy_process = None
    /\ running # { }

\* C13: a spawn that fails is a recoverable error: no handle is stored, the
\* device list, the selected index, the marker and the resolved selection are
\* unchanged, the program goes on, and a later Start can be attempted.
C13_SpawnFailureIsRecoverable ==
    [][(pc = "ui" /\ IsSome(spawn_log') /\ running' = running)
       => /\ scrcpy_process' = None
          /\ pc' = "reconcile"
          /\ status_message' = "Failed to start scrcpy"
          /\ UNCHANGED << devices, selected_device, last_selected_device,
                          device_type, crop_args, applied_config >>
          /\ devices' # << >>]_vars

C13_Witness ==
    /\ ui_event = "start"
    /\ IsSome(spawn_log)
    /\ scrcpy_process = None
    /\ status_message = "Failed to start scrcpy"
    /\ pc = "reconcile"

\* The config text the table T holds for device type t.
ConfigFor(T, t) ==
    IF t \in DOMAIN T THEN T[t].scrcpy_args
    ELSE IF S_default \in DOMAIN T THEN T[S_default].scrcpy_args
    ELSE Empty

\* The normalized args of a config text.
ArgsFor(config) ==
    IF CropTokens(config) = << >> THEN None
    ELSE Some(join(CropTokens(config)))

\* C14: at the end of every tick that leaves the device list non-empty, the
\* last-processed marker equals the selected index and the resolved selection
\* (applied config text and normalized args) is the one for the device at the
\* selected index.
C14_TickEndsResolvedForSelected ==
    (pc = "ui" /\ devices # << >>)
    => /\ last_selected_device = selected_device
       /\ resolved_for = Some(devices[selected_device + 1])
       /\ applied_config = ConfigFor(device_config, dev_type)
       /\ crop_args = ArgsFor(applied_config)

C14_Witness ==
    /\ pc = "ui"
    /\ devices = << D1, D2 >>
    /\ selected_device = 1
    /\ last_selected_device = 1
    /\ resolved_for = Some(D2)
    /\ adb_seen = None

\* C15: the process handle is changed only by Start and Stop; ticks and
\* selection changes leave it as it is, even when no device is listed any more.
C15_HandleChangedOnlyByStartStop ==
    [][scrcpy_process' # scrcpy_process
       => (pc = "ui" /\ ui_event' \in { "start", "stop" })]_vars

C15_Witness ==
    /\ pc = "ui"
    /\ IsSome(scrcpy_process)
    /\ adb_seen = Some(<< >>)
    /\ devices = << >>
    /\ IsSome(resolved_for)

\* C16: the marker starts at the sentinel and is the sentinel whenever no
\* device is listed; so the first tick with a device, and every tick that
\* takes the list from empty to non-empty, resolves for the device at index 0.
C16_SentinelWhileIdle ==
    /\ [](ui_event = "init" => last_selected_device = USIZE_MAX)
    /\ []((devices = << >> /\ pc # "index_panic")
            => last_selected_device = USIZE_MAX)
    /\ [][(/\ pc = "reconcile"
           /\ pc' = "ui"
           /\ (ui_event = "init" \/ devices = << >>)
           /\ devices' # << >>)
          => /\ selected_device' = 0
             /\ last_selected_device' = 0
             /\ queries' # << >>
             /\ \A i \in DOMAIN queries' : queries'[i] = devices'[1]
             /\ resolved_for' = Some(devices'[1])]_vars

C16_Witness ==
    /\ pc = "ui"
    /\ devices = << >>
    /\ adb_seen = Some(<< >>)
    /\ IsSome(resolved_for)
    /\ last_selected_device = USIZE_MAX

\* C17: a child that is still tracked when the program exits is terminated.
C17_TrackedChildTerminatedAtExit ==
    (pc = "exited" /\ IsSome(scrcpy_process))
    => Unwrap(scrcpy_process) \notin running

\* C18: the selected index is a valid index whenever a device is listed, and
\* it is 0 after any change of the list that left it out of bounds, the change
\* to the empty list included.
C18_SelectedIndexValid ==
    /\ [](pc # "index_panic")
    /\ [](devices # << >> => selected_device < Len(devices))
    /\ [](devices = << >> => selected_device = 0)
    /\ [][(devices' # devices /\ selected_device >= Len(devices'))
          => selected_device' = 0]_vars

C18_Witness ==
    /\ pc = "ui"
    /\ adb_seen = Some(<< D2 >>)
    /\ devices = << D2 >>
    /\ selected_device = 0
    /\ Len(queries) = 2

\* C19: whenever a spawn is attempted, the arguments passed are those resolved
\* for the very device whose serial is passed after --serial.
C19_SpawnArgsResolvedForSerial ==
    IsSome(spawn_log) =>
        LET argv == Unwrap(spawn_log) IN
        /\ Len(argv) >= 2
        /\ resolved_for = Some(argv[2])
        /\ argv[2] = devices[selected_device + 1]
        /\ SubSeq(argv, 3, Len(argv))
             = CropTokens(ConfigFor(device_config, dev_type))

C19_Witness ==
    /\ IsSome(spawn_log)
    /\ Len(devices) = 2
    /\ selected_device = 1
    /\ Len(Unwrap(spawn_log)) > 2

\* C20: the table in memory is fixed after construction: no tick, selection,
\* Start, Stop or Download changes it, and Download leaves the resolved
\* selection as it is.
C20_TableFixedAfterConstruction ==
    [][/\ device_config' = device_config
       /\ (pc = "ui" /\ ui_event' = "download")
            => UNCHANGED << device_type, crop_args, applied_config >>]_vars

C20_Witness ==
    /\ ui_event = "download"
    /\ status_message = "Config downloaded successfully."
    /\ pc = "reconcile"
    /\ IsSome(crop_args)

====
